---- MODULE Spec2Model ----
(***************************************************************************)
(* Model of src/ini.py: the transaction ingestion pipeline of the personal *)
(* finance ledger (date and amount normalisation, vocabulary validation,   *)
(* duplicate detection, insert into the SQLite table, listing).            *)
(*                                                                         *)
(* Python strings are modelled as sequences of one-character strings, so   *)
(* that trimming, replacing, parsing and formatting are computed and not   *)
(* assumed.  Str("...") literals are written out as tuples.                *)
(***************************************************************************)
EXTENDS Integers, Sequences, FiniteSets, TLC

----------------------------------------------------------------------------
(* Bounds of the model *)

\* longest amount string enumerated for parse_amount_to_cents
MaxLen == 4
\* largest number of rows the table holds before callers stop adding
MaxRows == 2
\* last value of the wall clock (seconds)
MaxClock == 1
\* cents_to_brl / parse round trip: every c in 1..MaxCents is enumerated
MaxCents == 120

----------------------------------------------------------------------------
(* Characters and strings *)

DigitChars == {"0", "1", "2", "3", "4", "5", "6", "7", "8", "9"}

DigitVal(c) ==
  CASE c = "0" -> 0 [] c = "1" -> 1 [] c = "2" -> 2 [] c = "3" -> 3
    [] c = "4" -> 4 [] c = "5" -> 5 [] c = "6" -> 6 [] c = "7" -> 7
    [] c = "8" -> 8 [] c = "9" -> 9

DigitChar(d) ==
  CASE d = 0 -> "0" [] d = 1 -> "1" [] d = 2 -> "2" [] d = 3 -> "3"
    [] d = 4 -> "4" [] d = 5 -> "5" [] d = 6 -> "6" [] d = 7 -> "7"
    [] d = 8 -> "8" [] d = 9 -> "9"

RECURSIVE Pow10(_)
Pow10(n) == IF n = 0 THEN 1 ELSE 10 * Pow10(n - 1)

IsSpace(c) == c = " "

\* str.strip(): drop leading and trailing whitespace
RECURSIVE LStrip(_)
LStrip(s) == IF s # <<>> /\ IsSpace(Head(s)) THEN LStrip(Tail(s)) ELSE s

RECURSIVE RStrip(_)
RStrip(s) ==
  IF s # <<>> /\ IsSpace(s[Len(s)]) THEN RStrip(SubSeq(s, 1, Len(s) - 1)) ELSE s

Strip(s) == RStrip(LStrip(s))

\* the character c occurs in s  (Python: c in s)
Contains(s, c) == \E i \in 1..Len(s) : s[i] = c

\* s.replace(c, r) for a single character c and a replacement string r
RECURSIVE ReplaceChar(_, _, _)
ReplaceChar(s, c, r) ==
  IF s = <<>> THEN <<>>
  ELSE (IF Head(s) = c THEN r ELSE <<Head(s)>>) \o ReplaceChar(Tail(s), c, r)

\* s.replace("R$", ""): non-overlapping occurrences, left to right
RECURSIVE RemoveCurrency(_)
RemoveCurrency(s) ==
  IF Len(s) < 2 THEN s
  ELSE IF s[1] = "R" /\ s[2] = "$" THEN RemoveCurrency(SubSeq(s, 3, Len(s)))
  ELSE <<Head(s)>> \o RemoveCurrency(Tail(s))

\* str.lower() on the letters the model uses
LowerChar(c) ==
  CASE c = "P" -> "p" [] c = "I" -> "i" [] c = "X" -> "x" [] c = "L" -> "l"
    [] c = "O" -> "o" [] c = "S" -> "s" [] c = "A" -> "a" [] OTHER -> c

Lower(s) == [i \in 1..Len(s) |-> LowerChar(s[i])]

AllDigits(s) == \A i \in 1..Len(s) : s[i] \in DigitChars

\* int(s) of a string of decimal digits
RECURSIVE DigitsToNat(_)
DigitsToNat(s) ==
  IF s = <<>> THEN 0
  ELSE 10 * DigitsToNat(SubSeq(s, 1, Len(s) - 1)) + DigitVal(s[Len(s)])

\* str(n) of a natural number
RECURSIVE NatToDigits(_)
NatToDigits(n) ==
  IF n < 10 THEN <<DigitChar(n)>>
  ELSE NatToDigits(n \div 10) \o <<DigitChar(n % 10)>>

\* code point order of the characters of an ISO date ('-' sorts before digits)
CharOrd(c) == IF c \in DigitChars THEN 48 + DigitVal(c) ELSE 45

\* lexicographic order on strings (SQLite BINARY collation on TEXT)
RECURSIVE StrLess(_, _)
StrLess(a, b) ==
  IF b = <<>> THEN FALSE
  ELSE IF a = <<>> THEN TRUE
  ELSE IF Head(a) # Head(b) THEN CharOrd(Head(a)) < CharOrd(Head(b))
  ELSE StrLess(Tail(a), Tail(b))

----------------------------------------------------------------------------
(* Money parser: parse_amount_to_cents *)

Ok(v) == [ok |-> TRUE, val |-> v, err |-> "none"]
Err(e) == [ok |-> FALSE, val |-> 0, err |-> e]
ErrStr(e) == [ok |-> FALSE, val |-> <<>>, err |-> e]

\* The strings float() accepts, over the characters the model enumerates
\* (digits, '.', ',', '-', '+', ' ', 'R', '$', 'x'): an optional sign, then
\* digits with at most one '.', at least one digit.  Exponents, underscores,
\* 'inf' and 'nan' need characters outside that alphabet.
FloatSyntax(s) ==
  LET body == IF s # <<>> /\ Head(s) \in {"-", "+"} THEN Tail(s) ELSE s
      dots == {i \in 1..Len(body) : body[i] = "."}
  IN  /\ Cardinality(dots) <= 1
      /\ \A i \in 1..Len(body) : body[i] \in DigitChars \/ body[i] = "."
      /\ \E i \in 1..Len(body) : body[i] \in DigitChars

\* float(s) as an exact decimal: (-1)^neg * mant / 10^scale
FloatOf(s) ==
  LET neg  == s # <<>> /\ Head(s) = "-"
      body == IF s # <<>> /\ Head(s) \in {"-", "+"} THEN Tail(s) ELSE s
      dot  == IF Contains(body, ".")
              THEN CHOOSE i \in 1..Len(body) : body[i] = "."
              ELSE Len(body) + 1
  IN  [neg   |-> neg,
       mant  |-> DigitsToNat(ReplaceChar(body, ".", <<>>)),
       scale |-> IF dot > Len(body) THEN 0 ELSE Len(body) - dot]

\* round(valor * 100) for valor > 0.  When the exact product is k + 1/2 the
\* binary double nearest to valor decides whether the product lands below,
\* on or above the half, so the result is k or k + 1: tieUp selects which.
RoundCents(v, tieUp) ==
  IF v.scale <= 2 THEN v.mant * Pow10(2 - v.scale)
  ELSE LET d == Pow10(v.scale - 2)
           k == v.mant \div d
           r == v.mant % d
       IN  IF 2 * r < d THEN k
           ELSE IF 2 * r > d THEN k + 1
           ELSE IF tieUp THEN k + 1 ELSE k

parse_amount_to_cents(value_str, tieUp) ==
  LET s0 == ReplaceChar(RemoveCurrency(Strip(value_str)), " ", <<>>)
      s  == IF Contains(s0, ".") /\ Contains(s0, ",")
            THEN ReplaceChar(ReplaceChar(s0, ".", <<>>), ",", <<".">>)
            ELSE IF Contains(s0, ",") THEN ReplaceChar(s0, ",", <<".">>)
            ELSE s0
  IN  IF ~FloatSyntax(s) THEN Err("InvalidAmount")
      ELSE LET valor == FloatOf(s)
           IN  IF valor.neg \/ valor.mant = 0 THEN Err("NonPositiveAmount")
               ELSE Ok(RoundCents(valor, tieUp))

----------------------------------------------------------------------------
(* Display formatter: cents_to_brl, for cents >= 0 *)

\* f"{cents / 100.0:.2f}".split("."): integer part and two fraction digits
Fixed2(cents) ==
  [inteiro |-> NatToDigits(cents \div 100),
   frac    |-> <<DigitChar((cents % 100) \div 10), DigitChar(cents % 10)>>]

\* variant: groups joined with ',' as in en-US
RECURSIVE GroupThousandsComma(_)
GroupThousandsComma(inteiro) ==
  IF Len(inteiro) <= 3 THEN inteiro
  ELSE GroupThousandsComma(SubSeq(inteiro, 1, Len(inteiro) - 3))
         \o <<",">> \o SubSeq(inteiro, Len(inteiro) - 2, Len(inteiro))

\* ".".join of the groups of three digits taken from the right
RECURSIVE GroupThousands(_)
GroupThousands(inteiro) ==
  IF Len(inteiro) <= 3 THEN inteiro
  ELSE GroupThousands(SubSeq(inteiro, 1, Len(inteiro) - 3))
         \o <<".">> \o SubSeq(inteiro, Len(inteiro) - 2, Len(inteiro))

cents_to_brl(cents) ==
  LET f == Fixed2(cents)
  IN  <<"R", "$", " ">> \o GroupThousands(f.inteiro) \o <<",">> \o f.frac

----------------------------------------------------------------------------
(* Date normaliser: normalize_date_to_iso *)

\* s.split(sep) for a one-character separator
RECURSIVE Split(_, _)
Split(s, sep) ==
  IF ~Contains(s, sep) THEN <<s>>
  ELSE LET i == CHOOSE j \in 1..Len(s) :
                  s[j] = sep /\ \A h \in 1..(j - 1) : s[h] # sep
       IN  <<SubSeq(s, 1, i - 1)>> \o Split(SubSeq(s, i + 1, Len(s)), sep)

\* strptime field patterns: %Y is \d\d\d\d, %m is 1[0-2]|0[1-9]|[1-9],
\* %d is 3[01]|[12]\d|0[1-9]|[1-9]| [1-9]
MatchY(f) == Len(f) = 4 /\ AllDigits(f)

MatchM(f) ==
  /\ Len(f) \in {1, 2}
  /\ AllDigits(f)
  /\ DigitsToNat(f) \in 1..12

MatchD(f) ==
  \/ /\ Len(f) \in {1, 2}
     /\ AllDigits(f)
     /\ DigitsToNat(f) \in 1..31
  \/ /\ Len(f) = 2
     /\ f[1] = " "
     /\ f[2] \in DigitChars \ {"0"}

FieldVal(f) == DigitsToNat(ReplaceChar(f, " ", <<>>))

IsLeap(y) == (y % 4 = 0 /\ y % 100 # 0) \/ y % 400 = 0

DaysInMonth(y, m) ==
  IF m = 2 THEN (IF IsLeap(y) THEN 29 ELSE 28)
  ELSE IF m \in {4, 6, 9, 11} THEN 30 ELSE 31

\* datetime(y, m, d) accepts the date
ValidDate(y, m, d) ==
  /\ y \in 1..9999
  /\ m \in 1..12
  /\ d \in 1..DaysInMonth(y, m)

Pad(n, width) ==
  LET ds == NatToDigits(n)
  IN  [i \in 1..(width - Len(ds)) |-> "0"] \o ds

\* date.isoformat()
IsoFormat(y, m, d) == Pad(y, 4) \o <<"-">> \o Pad(m, 2) \o <<"-">> \o Pad(d, 2)

\* strptime(date_str, fmt) for fmt "%Y-%m-%d" (ymd) or "%d/%m/%Y"
Strptime(date_str, ymd) ==
  LET fs == Split(date_str, IF ymd THEN "-" ELSE "/")
  IN  IF Len(fs) # 3 THEN ErrStr("InvalidDate")
      ELSE LET fy == IF ymd THEN fs[1] ELSE fs[3]
               fm == fs[2]
               fd == IF ymd THEN fs[3] ELSE fs[1]
           IN  IF MatchY(fy) /\ MatchM(fm) /\ MatchD(fd)
                  /\ ValidDate(FieldVal(fy), FieldVal(fm), FieldVal(fd))
               THEN Ok(IsoFormat(FieldVal(fy), FieldVal(fm), FieldVal(fd)))
               ELSE ErrStr("InvalidDate")

normalize_date_to_iso(date_str) ==
  LET s == Strip(date_str)
  IN  IF Strptime(s, TRUE).ok THEN Strptime(s, TRUE)
      ELSE IF Strptime(s, FALSE).ok THEN Strptime(s, FALSE)
      ELSE ErrStr("InvalidDate")

----------------------------------------------------------------------------
(* Recommended vocabularies and the vocabulary validator *)

EXPENSE_CATEGORIES ==
  { <<"A", "l", "i", "m", "e", "n", "t", "a", "ç", "ã", "o">>,
    <<"M", "o", "r", "a", "d", "i", "a">>,
    <<"T", "r", "a", "n", "s", "p", "o", "r", "t", "e">>,
    <<"S", "a", "ú", "d", "e">>,
    <<"E", "d", "u", "c", "a", "ç", "ã", "o">>,
    <<"L", "a", "z", "e", "r">>,
    <<"V", "e", "s", "t", "u", "á", "r", "i", "o">>,
    <<"I", "m", "p", "o", "s", "t", "o", "s">>,
    <<"A", "s", "s", "i", "n", "a", "t", "u", "r", "a", "s">>,
    <<"P", "e", "t", "s">>,
    <<"D", "o", "a", "ç", "õ", "e", "s">>,
    <<"O", "u", "t", "r", "o", "s">> }

INCOME_CATEGORIES ==
  { <<"S", "a", "l", "á", "r", "i", "o">>,
    <<"V", "e", "n", "d", "a", "s">>,
    <<"I", "n", "v", "e", "s", "t", "i", "m", "e", "n", "t", "o", "s">>,
    <<"P", "r", "e", "s", "e", "n", "t", "e">>,
    <<"R", "e", "e", "m", "b", "o", "l", "s", "o">>,
    <<"O", "u", "t", "r", "o", "s">> }

PAYMENT_METHODS ==
  { <<"p", "i", "x">>,
    <<"d", "é", "b", "i", "t", "o">>,
    <<"c", "r", "é", "d", "i", "t", "o">>,
    <<"d", "i", "n", "h", "e", "i", "r", "o">>,
    <<"b", "o", "l", "e", "t", "o">>,
    <<"t", "r", "a", "n", "s", "f", "e", "r", "ê", "n", "c", "i", "a">> }

Outros == <<"O", "u", "t", "r", "o", "s">>
Pix == <<"p", "i", "x">>
Principal == <<"p", "r", "i", "n", "c", "i", "p", "a", "l">>

\* variant: the category is lower-cased like the payment method
validate_category_lower(kind, category) ==
  LET cat == Lower(Strip(category))
  IN  IF cat = <<>> THEN Lower(Outros) ELSE cat

\* validate_category returns the category it keeps; the [aviso] line it may
\* print is CategoryWarning.  It has no raise statement.
validate_category(kind, category) ==
  LET cat == Strip(category)
  IN  IF cat = <<>> THEN Outros ELSE cat

CategoryWarning(kind, category) ==
  LET allowed == IF kind = "income" THEN INCOME_CATEGORIES ELSE EXPENSE_CATEGORIES
  IN  validate_category(kind, category) \notin allowed

validate_payment_method(method) ==
  LET m == Lower(Strip(method))
  IN  IF m = <<>> THEN Pix ELSE m

MethodWarning(method) ==
  LET m == Lower(Strip(method))
  IN  m # <<>> /\ m \notin PAYMENT_METHODS

----------------------------------------------------------------------------
(* Transaction and the ingestion facade *)

\* None / SQL NULL: a value no string of characters equals
NULL == <<"NULL">>

NoTx ==
  [kind |-> "none", date_iso |-> <<>>, amount_cents |-> 0, category |-> <<>>,
   description |-> <<>>, account |-> <<>>, payment_method |-> <<>>, tags |-> NULL]

\* The pipeline shared by add_expense and add_income up to the Transaction
\* handed to save_transaction: the first error raised wins, in the order
\* date, amount; the two validators cannot fail.
BuildTransaction(kind, req, tieUp) ==
  LET d == normalize_date_to_iso(req.date_str)
      a == parse_amount_to_cents(req.amount_str, tieUp)
  IN  IF ~d.ok THEN [ok |-> FALSE, val |-> NoTx, err |-> d.err]
      ELSE IF ~a.ok THEN [ok |-> FALSE, val |-> NoTx, err |-> a.err]
      ELSE [ok  |-> TRUE,
            err |-> "none",
            val |-> [kind           |-> kind,
                     date_iso       |-> d.val,
                     amount_cents   |-> a.val,
                     category       |-> validate_category(kind, req.category),
                     description    |-> Strip(req.description),
                     account        |-> IF Strip(req.account) = <<>>
                                        THEN Principal ELSE Strip(req.account),
                     payment_method |-> validate_payment_method(req.payment_method),
                     tags           |-> req.tags]]

add_expense(req, tieUp) == BuildTransaction("expense", req, tieUp)

add_income(req, tieUp) == BuildTransaction("income", req, tieUp)

----------------------------------------------------------------------------
(* The transactions table and the three SQL statements *)

\* IFNULL(x, '')  and Python's  x or ""
IfNull(x) == IF x = NULL THEN <<>> ELSE x

\* the WHERE clause of is_duplicate, for one row
MatchesRow(row, tx) ==
  /\ row.type = tx.kind
  /\ row.date = tx.date_iso
  /\ row.amount_cents = tx.amount_cents
  /\ row.category = tx.category
  /\ IfNull(row.description) = IfNull(tx.description)

\* variant: the WHERE clause also compares the account
is_duplicate_same_account(tx, rows) ==
  \E i \in 1..Len(rows) : MatchesRow(rows[i], tx) /\ rows[i].account = tx.account

\* variant: the WHERE clause leaves out the type column
is_duplicate_any_kind(tx, rows) ==
  \E i \in 1..Len(rows) :
    /\ rows[i].date = tx.date_iso
    /\ rows[i].amount_cents = tx.amount_cents
    /\ rows[i].category = tx.category
    /\ IfNull(rows[i].description) = IfNull(tx.description)

\* SELECT COUNT(1) ... > 0 over the rows committed so far
is_duplicate(tx, rows) ==
  Cardinality({i \in 1..Len(rows) : MatchesRow(rows[i], tx)}) > 0

\* variant: the duplicate query runs whatever allow_duplicate says
MustCheckAlways(allow_duplicate) == TRUE

\* the guard of save_transaction: the query runs only when duplicates are
\* not allowed
MustCheckDuplicate(allow_duplicate) == ~allow_duplicate

\* CHECK(type IN ('income','expense')) and CHECK(amount_cents > 0)
CheckConstraints(row) ==
  /\ row.type \in {"income", "expense"}
  /\ row.amount_cents > 0

MaxId(rows) ==
  IF rows = <<>> THEN 0
  ELSE CHOOSE m \in {rows[i].id : i \in 1..Len(rows)} :
         \A i \in 1..Len(rows) : rows[i].id <= m

\* variant: the id is the number of rows, so the last id is handed out again
NextRowIdReused(rows, sq) == IF Len(rows) = 0 THEN 1 ELSE Len(rows)

\* INTEGER PRIMARY KEY AUTOINCREMENT: one more than the largest id ever used
NextRowId(rows, sq) == (IF sq > MaxId(rows) THEN sq ELSE MaxId(rows)) + 1

\* the row the INSERT statement of save_transaction writes
NewRow(id, tx, now) ==
  [id             |-> id,
   type           |-> tx.kind,
   date           |-> tx.date_iso,
   amount_cents   |-> tx.amount_cents,
   category       |-> tx.category,
   description    |-> tx.description,
   account        |-> tx.account,
   payment_method |-> tx.payment_method,
   tags           |-> tx.tags,
   created_at     |-> now,
   updated_at     |-> now]

\* variant: no rollback, the row stays although the constraint failed
SqlInsertNoRollback(rows, sq, tx, now) ==
  LET id  == NextRowId(rows, sq)
      row == NewRow(id, tx, now)
  IN  [ok |-> CheckConstraints(row), rows |-> Append(rows, row), seq |-> id,
       lastrowid |-> IF CheckConstraints(row) THEN id ELSE 0]

\* variant: a UNIQUE index on the duplicate key makes the INSERT check again
SqlInsertUnique(rows, sq, tx, now) ==
  LET id  == NextRowId(rows, sq)
      row == NewRow(id, tx, now)
  IN  IF CheckConstraints(row) /\ ~is_duplicate(tx, rows)
      THEN [ok |-> TRUE, rows |-> Append(rows, row), seq |-> id, lastrowid |-> id]
      ELSE [ok |-> FALSE, rows |-> rows, seq |-> sq, lastrowid |-> 0]

\* INSERT inside "with get_conn() as conn": commit on success, rollback when
\* a constraint fails (sqlite3.IntegrityError)
SqlInsert(rows, sq, tx, now) ==
  LET id  == NextRowId(rows, sq)
      row == NewRow(id, tx, now)
  IN  IF CheckConstraints(row)
      THEN [ok |-> TRUE, rows |-> Append(rows, row), seq |-> id, lastrowid |-> id]
      ELSE [ok |-> FALSE, rows |-> rows, seq |-> sq, lastrowid |-> 0]

\* variant: ORDER BY date DESC alone
ListBeforeDateOnly(a, b) == StrLess(b.date, a.date)

\* ORDER BY date DESC, id DESC: a comes before b
ListBefore(a, b) ==
  \/ StrLess(b.date, a.date)
  \/ a.date = b.date /\ a.id > b.id

\* may a be returned before b: a is before b, or the ORDER BY does not tell
ListOrderAllows(a, b) == ~ListBefore(b, a)

\* LIMIT n: a negative limit means no limit
LimitCount(n, total) == IF n < 0 \/ n > total THEN total ELSE n

\* what the f-string of list_last prints for one fetched row
PrintedLine(r) ==
  [id             |-> r.id,
   date           |-> r.date,
   sinal          |-> IF r.type = "expense" THEN "-" ELSE "+",
   valor          |-> cents_to_brl(r.amount_cents),
   kind           |-> r.type,
   category       |-> r.category,
   description    |-> IfNull(r.description),
   account        |-> r.account,
   payment_method |-> r.payment_method]

\* the result sets the SELECT of list_last may return: every arrangement of
\* the rows that the ORDER BY allows, cut at the LIMIT
SqlListLast(rows, n) ==
  LET N     == Len(rows)
      perms == {f \in [1..N -> 1..N] :
                  /\ \A i, j \in 1..N : i # j => f[i] # f[j]
                  /\ \A i, j \in 1..N :
                       i < j => ListOrderAllows(rows[f[i]], rows[f[j]])}
  IN  {[i \in 1..LimitCount(n, N) |-> rows[f[i]]] : f \in perms}

----------------------------------------------------------------------------
(* Inputs the callers draw from *)

BaseRequest ==
  [date_str        |-> <<"2", "0", "2", "4", "-", "0", "3", "-", "0", "5">>,
   amount_str      |-> <<"1", ",", "0", "0">>,
   category        |-> <<" ", "L", "a", "z", "e", "r", " ">>,
   description     |-> <<>>,
   account         |-> <<" ">>,
   payment_method  |-> <<>>,
   tags            |-> NULL,
   allow_duplicate |-> FALSE]

NoRequest ==
  [date_str |-> <<>>, amount_str |-> <<>>, category |-> <<>>,
   description |-> <<>>, account |-> <<>>, payment_method |-> <<>>,
   tags |-> NULL, allow_duplicate |-> FALSE]

DateInputs ==
  { <<"0", "5", "/", "0", "3", "/", "2", "0", "2", "4">>,
    <<"2", "0", "2", "4", "-", "0", "3", "-", " ", "6">>,
    <<"3", "1", "/", "0", "2", "/", "2", "0", "2", "4">> }

AmountInputs ==
  { <<"2">>, <<".", "0", "0", "1">>, <<"0">>, <<"x">> }

CategoryInputs == { <<" ">> }

DescriptionInputs == { <<" ", "x", " ">> }

AccountInputs == { <<"a">> }

MethodInputs == { <<" ", "P", "I", "X">>, <<"X">> }

TagsInputs == { <<"t">> }

\* BaseRequest and every request that differs from it in one argument
Requests ==
  {BaseRequest}
    \cup {[BaseRequest EXCEPT !.date_str = v] : v \in DateInputs}
    \cup {[BaseRequest EXCEPT !.amount_str = v] : v \in AmountInputs}
    \cup {[BaseRequest EXCEPT !.category = v] : v \in CategoryInputs}
    \cup {[BaseRequest EXCEPT !.description = v] : v \in DescriptionInputs}
    \cup {[BaseRequest EXCEPT !.account = v] : v \in AccountInputs}
    \cup {[BaseRequest EXCEPT !.payment_method = v] : v \in MethodInputs}
    \cup {[BaseRequest EXCEPT !.tags = v] : v \in TagsInputs}
    \cup {[BaseRequest EXCEPT !.allow_duplicate = TRUE]}

BaseTx == add_expense(BaseRequest, FALSE).val

\* Transaction objects a library client passes to save_transaction itself
DirectTxs == { [BaseTx EXCEPT !.description = NULL] }

\* arguments of list_last
ListLimits == {-1, 0, 1, MaxRows}

FullMenu ==
  [expense |-> Requests,
   income  |-> {BaseRequest},
   direct  |-> DirectTxs,
   limits  |-> ListLimits]

\* the inputs of two callers racing on the same logical transaction
RaceMenu ==
  [expense |-> {BaseRequest, [BaseRequest EXCEPT !.amount_str = <<".", "0", "0", "1">>]},
   income  |-> {BaseRequest},
   direct  |-> DirectTxs,
   limits  |-> {-1, 1}]

MenuOf(name) == IF name = "race" THEN RaceMenu ELSE FullMenu

\* the outcomes of the facade for every request (one, or two when the
\* rounding is a tie), computed once
ExpenseBuilt == [req \in Requests |-> {add_expense(req, tieUp) : tieUp \in BOOLEAN}]

IncomeBuilt == [req \in Requests |-> {add_income(req, tieUp) : tieUp \in BOOLEAN}]

\* characters of the amount strings enumerated for the money parser
AmountAlphabet == {"0", "1", "5", ".", ",", "-", " ", "R", "$"}

RECURSIVE StringsUpTo(_, _)
StringsUpTo(alphabet, n) ==
  IF n = 0 THEN {<<>>}
  ELSE LET shorter == StringsUpTo(alphabet, n - 1)
       IN  shorter \cup {Append(s, c) : s \in shorter, c \in alphabet}

AmountStrings == StringsUpTo(AmountAlphabet, MaxLen)

\* amounts in minor units whose display string has no, one and two grouping
\* separators
CentsSamples ==
  (1..MaxCents)
    \cup {99999, 100000, 100001, 123456, 99999999, 100000000, 123456789}

----------------------------------------------------------------------------
(* State *)

VARIABLES
  store,        \* rows of the transactions table, in rowid order
  seq,          \* sqlite_sequence: the largest id AUTOINCREMENT has handed out
  clock,        \* datetime.utcnow(), in whole seconds
  callers,      \* the processes that use the database file
  menu,         \* which inputs the callers draw from: "full" or "race"
  pc,           \* per caller: where it is inside save_transaction
  call,         \* per caller: the current (or last) call and its locals
  result,       \* per caller: what the last call returned or raised
  lastListing,  \* what list_last printed, until the next write
  pure          \* the argument and results of the pure functions

vars ==
  <<store, seq, clock, callers, menu, pc, call, result, lastListing, pure>>

ledger == <<store, seq, clock, callers, menu, pc, call, result, lastListing>>

NoCall ==
  [op |-> "none", req |-> NoRequest, tx |-> NoTx, allow |-> FALSE, now |-> 0,
   avisos |-> {}]

NoResult == [status |-> "none", id |-> 0]
Pending == [status |-> "pending", id |-> 0]
Returned(id) == [status |-> "ok", id |-> id]
Raised(e) == [status |-> e, id |-> 0]

Errors ==
  {"InvalidDate", "InvalidAmount", "NonPositiveAmount", "DuplicateTransaction",
   "StorageError"}

NoListing == [valid |-> FALSE, n |-> 0, lines |-> <<>>]

PureOff == [phase |-> "off", cents |-> 0, text |-> <<>>, out |-> Err("none")]

InitLedger(cs, m) ==
  /\ store = <<>>
  /\ seq = 0
  /\ clock = 0
  /\ callers = cs
  /\ menu = m
  /\ pc = [p \in cs |-> "idle"]
  /\ call = [p \in cs |-> NoCall]
  /\ result = [p \in cs |-> NoResult]
  /\ lastListing = NoListing

\* the table as init_db leaves it, one caller (the CLI)
Init == InitLedger({"c1"}, "full") /\ pure = PureOff

\* the same table shared by two processes
InitRace == InitLedger({"c1", "c2"}, "race") /\ pure = PureOff

----------------------------------------------------------------------------
(* Operations *)

InFlight == {q \in callers : pc[q] # "idle"}

\* callers stop adding once the table (with the inserts under way) is full
RoomLeft == Len(store) + Cardinality(InFlight) < MaxRows

\* the body of add_expense / add_income up to the call of save_transaction,
\* and the first line of save_transaction when duplicates are allowed
StartAdd(p, op, req, built, warnings) ==
  /\ call' = [call EXCEPT ![p] =
                [op |-> op, req |-> req, tx |-> built.val,
                 allow |-> req.allow_duplicate, now |-> 0, avisos |-> warnings]]
  /\ IF ~built.ok
     THEN /\ pc' = [pc EXCEPT ![p] = "idle"]
          /\ result' = [result EXCEPT ![p] = Raised(built.err)]
     ELSE /\ pc' = [pc EXCEPT ![p] =
                      IF MustCheckDuplicate(req.allow_duplicate)
                      THEN "check" ELSE "stamp"]
          /\ result' = [result EXCEPT ![p] = Pending]
  /\ UNCHANGED <<store, seq, clock, callers, menu, lastListing, pure>>

Warnings(kind, req, built) ==
  IF ~built.ok THEN {}
  ELSE (IF CategoryWarning(kind, req.category) THEN {"categoria"} ELSE {})
         \cup (IF MethodWarning(req.payment_method) THEN {"metodo"} ELSE {})

AddExpense(p) ==
  /\ pc[p] = "idle"
  /\ RoomLeft
  /\ \E req \in MenuOf(menu).expense :
       \E built \in ExpenseBuilt[req] :
         StartAdd(p, "add_expense", req, built, Warnings("expense", req, built))

AddIncome(p) ==
  /\ pc[p] = "idle"
  /\ RoomLeft
  /\ \E req \in MenuOf(menu).income :
       \E built \in IncomeBuilt[req] :
         StartAdd(p, "add_income", req, built, Warnings("income", req, built))

\* save_transaction called with a Transaction the client built itself
SaveTransaction(p) ==
  /\ pc[p] = "idle"
  /\ RoomLeft
  /\ \E tx \in MenuOf(menu).direct, allow \in BOOLEAN :
       /\ call' = [call EXCEPT ![p] =
                     [op |-> "save_transaction", req |-> NoRequest, tx |-> tx,
                      allow |-> allow, now |-> 0, avisos |-> {}]]
       /\ pc' = [pc EXCEPT ![p] =
                   IF MustCheckDuplicate(allow) THEN "check" ELSE "stamp"]
       /\ result' = [result EXCEPT ![p] = Pending]
  /\ UNCHANGED <<store, seq, clock, callers, menu, lastListing, pure>>

\* save_transaction: is_duplicate(tx), one read of the table
CheckDuplicate(p) ==
  /\ pc[p] = "check"
  /\ IF is_duplicate(call[p].tx, store)
     THEN /\ pc' = [pc EXCEPT ![p] = "idle"]
          /\ result' = [result EXCEPT ![p] = Raised("DuplicateTransaction")]
     ELSE /\ pc' = [pc EXCEPT ![p] = "stamp"]
          /\ UNCHANGED result
  /\ UNCHANGED <<store, seq, clock, callers, menu, call, lastListing, pure>>

\* save_transaction: now = datetime.utcnow()
Stamp(p) ==
  /\ pc[p] = "stamp"
  /\ call' = [call EXCEPT ![p].now = clock]
  /\ pc' = [pc EXCEPT ![p] = "insert"]
  /\ UNCHANGED <<store, seq, clock, callers, menu, result, lastListing, pure>>

\* save_transaction: the INSERT, committed or rolled back as a whole
Insert(p) ==
  /\ pc[p] = "insert"
  /\ LET r == SqlInsert(store, seq, call[p].tx, call[p].now)
     IN  /\ store' = r.rows
         /\ seq' = r.seq
         /\ result' = [result EXCEPT ![p] =
                         IF r.ok THEN Returned(r.lastrowid)
                         ELSE Raised("StorageError")]
         /\ lastListing' = IF r.rows = store THEN lastListing ELSE NoListing
  /\ pc' = [pc EXCEPT ![p] = "idle"]
  /\ UNCHANGED <<clock, callers, menu, call, pure>>

\* list_last(n): one SELECT, then the lines it prints
ListLast(p) ==
  /\ pc[p] = "idle"
  /\ \E n \in MenuOf(menu).limits :
       \E rows \in SqlListLast(store, n) :
         lastListing' =
           [valid |-> TRUE, n |-> n,
            lines |-> [i \in 1..Len(rows) |-> PrintedLine(rows[i])]]
  /\ UNCHANGED <<store, seq, clock, callers, menu, pc, call, result, pure>>

\* a second passes
Tick ==
  /\ clock < MaxClock
  /\ clock' = clock + 1
  /\ UNCHANGED <<store, seq, callers, menu, pc, call, result, lastListing, pure>>

Next ==
  \/ \E p \in callers : AddExpense(p)
  \/ \E p \in callers : AddIncome(p)
  \/ \E p \in callers : SaveTransaction(p)
  \/ \E p \in callers : CheckDuplicate(p)
  \/ \E p \in callers : Stamp(p)
  \/ \E p \in callers : Insert(p)
  \/ \E p \in callers : ListLast(p)
  \/ Tick

Spec == Init /\ [][Next]_vars

SpecRace == InitRace /\ [][Next]_vars

----------------------------------------------------------------------------
(* The pure functions applied to enumerated arguments *)

InitPure ==
  /\ store = <<>>
  /\ seq = 0
  /\ clock = 0
  /\ callers = {}
  /\ menu = "full"
  /\ pc = <<>>
  /\ call = <<>>
  /\ result = <<>>
  /\ lastListing = NoListing

\* an amount string as typed
InitParse ==
  /\ InitPure
  /\ pure \in {[phase |-> "text", cents |-> 0, text |-> s, out |-> Err("none")] :
                 s \in AmountStrings}

\* an amount in minor units as stored
InitShow ==
  /\ InitPure
  /\ pure \in {[phase |-> "cents", cents |-> c, text |-> <<>>, out |-> Err("none")] :
                 c \in CentsSamples}

ShowCents ==
  /\ pure.phase = "cents"
  /\ pure' = [pure EXCEPT !.phase = "text", !.text = cents_to_brl(pure.cents)]
  /\ UNCHANGED ledger

ParseAmount ==
  /\ pure.phase = "text"
  /\ \E tieUp \in BOOLEAN :
       pure' = [pure EXCEPT !.phase = "parsed",
                            !.out = parse_amount_to_cents(pure.text, tieUp)]
  /\ UNCHANGED ledger

NextParse == ParseAmount

NextShow == ShowCents \/ ParseAmount

SpecParse == InitParse /\ [][NextParse]_vars

SpecShow == InitShow /\ [][NextShow]_vars

----------------------------------------------------------------------------
(* Properties *)

AddOps == {"add_expense", "add_income"}

\* the five values a duplicate is defined on, description NULL read as ''
KeyOfRow(r) ==
  <<r.type, r.date, r.amount_cents, r.category,
    IF r.description = NULL THEN <<>> ELSE r.description>>

KeyOfTx(tx) ==
  <<tx.kind, tx.date_iso, tx.amount_cents, tx.category,
    IF tx.description = NULL THEN <<>> ELSE tx.description>>

Persisted(tx) == \E i \in 1..Len(store) : KeyOfRow(store[i]) = KeyOfTx(tx)

RowsWithId(id) == {i \in 1..Len(store) : store[i].id = id}

\* every NOT NULL column is set and the CHECKs hold
RowComplete(r) ==
  /\ r.id >= 1
  /\ r.type \in {"income", "expense"}
  /\ r.date # NULL /\ Len(r.date) = 10
  /\ r.amount_cents > 0
  /\ r.category # NULL /\ r.category # <<>>
  /\ r.created_at = r.updated_at

\* the step is caller p leaving save_transaction's duplicate query
LeavesCheck(p) == pc[p] = "check" /\ pc'[p] # "check"

\* the step is caller p executing its INSERT
LeavesInsert(p) == pc[p] = "insert" /\ pc'[p] = "idle"

\* the step changes the table by one whole row at the end, or not at all
AppendsAtMostOneRow ==
  \/ store' = store
  \/ /\ Len(store') = Len(store) + 1
     /\ SubSeq(store', 1, Len(store)) = store
     /\ RowComplete(store'[Len(store')])

\* C1: once a transaction is persisted, a later save of a transaction with
\* the same kind, date, amount, category and description and
\* allow_duplicate = false raises DuplicateTransaction and writes nothing.
C1_DuplicateRejected ==
  [][\A p \in callers :
       (LeavesCheck(p) /\ ~call[p].allow /\ Persisted(call[p].tx))
         => /\ result'[p] = Raised("DuplicateTransaction")
            /\ pc'[p] = "idle"
            /\ store' = store
            /\ seq' = seq]_vars

\* an add was rejected as a duplicate of a row in the table
C1_Witness ==
  \E p \in callers :
    /\ call[p].op \in AddOps
    /\ pc[p] = "idle"
    /\ result[p] = Raised("DuplicateTransaction")
    /\ Persisted(call[p].tx)
    /\ store # <<>>

\* C2: with allow_duplicate = true the duplicate query is skipped, and when a
\* row with the same key exists the call still inserts exactly one row and
\* returns an id no earlier row has.
C2_AllowDuplicateInserts ==
  /\ [](\A p \in callers : pc[p] = "check" => ~call[p].allow)
  /\ [][\A p \in callers :
          (LeavesInsert(p) /\ call[p].allow /\ Persisted(call[p].tx))
            => /\ Len(store') = Len(store) + 1
               /\ SubSeq(store', 1, Len(store)) = store
               /\ result'[p].status = "ok"
               /\ store'[Len(store')].id = result'[p].id
               /\ KeyOfRow(store'[Len(store')]) = KeyOfTx(call[p].tx)
               /\ \A i \in 1..Len(store) : store[i].id # result'[p].id]_vars

\* an add with allow_duplicate = true returned the id of a second row with
\* the key of an earlier one
C2_Witness ==
  \E p \in callers :
    /\ call[p].op \in AddOps
    /\ call[p].allow
    /\ result[p].status = "ok"
    /\ \E i, j \in 1..Len(store) :
         /\ store[j].id = result[p].id
         /\ store[i].id < store[j].id
         /\ KeyOfRow(store[i]) = KeyOfTx(call[p].tx)
         /\ KeyOfRow(store[j]) = KeyOfTx(call[p].tx)

\* the step is one in which a call of p ends by raising an error
RaisesNow(p) ==
  /\ result'[p].status \in Errors
  /\ pc'[p] = "idle"
  /\ pc[p] # "idle" \/ result'[p] # result[p] \/ call'[p] # call[p]

\* C3: a call that ends in an error never wrote: the table changes only in
\* the step in which a call returns an id, by one complete row, and every
\* step that raises leaves the table and its id sequence as they were.
C3_ErrorsLeaveStoreUnchanged ==
  /\ [](\A i \in 1..Len(store) : RowComplete(store[i]))
  /\ [][/\ \A p \in callers : RaisesNow(p) => (store' = store /\ seq' = seq)
        /\ AppendsAtMostOneRow
        /\ store' # store
             => \E p \in callers : LeavesInsert(p) /\ result'[p].status = "ok"]_vars

\* an add reached the INSERT and failed there, with rows already stored
C3_Witness ==
  \E p \in callers :
    /\ call[p].op \in AddOps
    /\ pc[p] = "idle"
    /\ result[p] = Raised("StorageError")
    /\ store # <<>>

\* C4: the INSERT of save_transaction does not look for duplicates again: a
\* caller that passed the duplicate query inserts its row although another
\* caller has committed the same key in between; every insert is one step
\* that adds one whole row.
C4_CheckThenInsertNotAtomic ==
  [][/\ \A p \in callers :
          (LeavesInsert(p) /\ ~call[p].allow /\ Persisted(call[p].tx))
            => /\ store' = Append(store, NewRow(seq + 1, call[p].tx, call[p].now))
               /\ result'[p] = Returned(seq + 1)
     /\ AppendsAtMostOneRow]_vars

\* two adds with allow_duplicate = false both returned an id, for two rows
\* with the same key
C4_Witness ==
  \E p, q \in callers :
    /\ p # q
    /\ call[p].op \in AddOps /\ call[q].op \in AddOps
    /\ ~call[p].allow /\ ~call[q].allow
    /\ result[p].status = "ok" /\ result[q].status = "ok"
    /\ result[p].id # result[q].id
    /\ KeyOfTx(call[p].tx) = KeyOfTx(call[q].tx)
    /\ \E i, j \in 1..Len(store) :
         /\ store[i].id = result[p].id
         /\ store[j].id = result[q].id
         /\ KeyOfRow(store[i]) = KeyOfRow(store[j])

\* C5: whenever parse_amount_to_cents returns, the amount is at least one
\* minor unit.
C5_ParsedAmountPositive ==
  (pure.phase = "parsed" /\ pure.out.ok) => pure.out.val >= 1

\* C6: the table is append-only: rows stay where they are with every column
\* unchanged, ids are unique and increase, and an insert returns an id above
\* every id handed out before.
C6_AppendOnlyMonotoneIds ==
  /\ [](\A i, j \in 1..Len(store) : i < j => store[i].id < store[j].id)
  /\ [][/\ Len(store') >= Len(store)
        /\ SubSeq(store', 1, Len(store)) = store
        /\ \A p \in callers :
             (LeavesInsert(p) /\ result'[p].status = "ok")
               => /\ result'[p].id > seq
                  /\ \A i \in 1..Len(store) : store[i].id < result'[p].id
                  /\ store'[Len(store')].id = result'[p].id]_vars

\* two rows are stored, the second add returned its id, and the table has
\* been listed since
C6_Witness ==
  /\ Len(store) >= 2
  /\ lastListing.valid
  /\ \E p \in callers :
       /\ result[p].status = "ok"
       /\ store[Len(store)].id = result[p].id

\* the lines are in ORDER BY date DESC, id DESC
ListingSorted(lines) ==
  \A i, j \in 1..Len(lines) :
    i < j => \/ StrLess(lines[j].date, lines[i].date)
             \/ lines[i].date = lines[j].date /\ lines[i].id > lines[j].id

\* list_last leaves the table alone, and a second listing with the same n
\* and no write in between prints the same lines
ListingReadOnlyAndStable ==
  [][/\ (lastListing' # lastListing /\ lastListing'.valid)
          => (store' = store /\ seq' = seq)
     /\ (lastListing.valid /\ lastListing'.valid /\ lastListing'.n = lastListing.n)
          => lastListing'.lines = lastListing.lines]_vars

\* C7 as stated: for every integer n, list_last(n) reads at most n rows (none
\* when n is negative), in date-descending then id-descending order, without
\* modifying the table and with the same result when repeated.
C7_AtMostNForEveryN ==
  /\ [](lastListing.valid
          => /\ Len(lastListing.lines) <= (IF lastListing.n < 0 THEN 0 ELSE lastListing.n)
             /\ ListingSorted(lastListing.lines))
  /\ ListingReadOnlyAndStable

\* C7 amended: for n >= 0 list_last(n) reads the first min(n, rows) rows, for
\* n < 0 (no LIMIT in SQLite) it reads every row; always in date-descending
\* then id-descending order, read-only and repeatable.
C7_AtMostNForNonNegativeN ==
  /\ [](lastListing.valid
          => /\ lastListing.n >= 0 => Len(lastListing.lines) <= lastListing.n
             /\ lastListing.n >= Len(store) => Len(lastListing.lines) = Len(store)
             /\ lastListing.n \in 0..Len(store)
                  => Len(lastListing.lines) = lastListing.n
             /\ lastListing.n < 0 => Len(lastListing.lines) = Len(store)
             /\ ListingSorted(lastListing.lines)
             /\ \A k \in 1..Len(lastListing.lines) :
                  /\ RowsWithId(lastListing.lines[k].id) # {}
                  /\ \A i \in 1..Len(store) :
                       (\A h \in 1..Len(lastListing.lines) :
                          lastListing.lines[h].id # store[i].id)
                         => \/ StrLess(store[i].date, lastListing.lines[k].date)
                            \/ /\ store[i].date = lastListing.lines[k].date
                               /\ store[i].id < lastListing.lines[k].id)
  /\ ListingReadOnlyAndStable

\* list_last(1) over two rows printed the older row, whose date is later
C7_Witness ==
  /\ lastListing.valid
  /\ lastListing.n = 1
  /\ Len(store) = 2
  /\ Len(lastListing.lines) = 1
  /\ lastListing.lines[1].id = store[1].id

\* C8: the duplicate query answers yes exactly when a stored row has the
\* transaction's kind, date, amount, category and description (NULL read as
\* ''); account, payment method and tags are not looked at.
C8_DuplicateIffKeyMatches ==
  [][\A p \in callers :
       LeavesCheck(p)
         => (result'[p] = Raised("DuplicateTransaction")
               <=> \E i \in 1..Len(store) :
                     /\ store[i].type = call[p].tx.kind
                     /\ store[i].date = call[p].tx.date_iso
                     /\ store[i].amount_cents = call[p].tx.amount_cents
                     /\ store[i].category = call[p].tx.category
                     /\ KeyOfRow(store[i])[5] = KeyOfTx(call[p].tx)[5])]_vars

\* a transaction was reported as a duplicate of a row from which it differs
\* in account, payment method or tags
C8_Witness ==
  \E p \in callers :
    /\ pc[p] = "idle"
    /\ result[p] = Raised("DuplicateTransaction")
    /\ \E i \in 1..Len(store) :
         /\ KeyOfRow(store[i]) = KeyOfTx(call[p].tx)
         /\ \/ store[i].account # call[p].tx.account
            \/ store[i].payment_method # call[p].tx.payment_method
            \/ store[i].tags # call[p].tx.tags

\* the category and payment method an add is to store, from its arguments
ExpectedCategory(category) ==
  IF \A i \in 1..Len(category) : category[i] = " " THEN Outros ELSE Strip(category)

ExpectedMethod(method) ==
  IF \A i \in 1..Len(method) : method[i] = " " THEN Pix
  ELSE [i \in 1..Len(Strip(method)) |-> LowerChar(Strip(method)[i])]

\* the date and the amount of every request, parsed once
DateOf == [req \in Requests |-> normalize_date_to_iso(req.date_str)]

AmountOf == [req \in Requests |-> parse_amount_to_cents(req.amount_str, FALSE)]

\* C9: the vocabularies never block an add.  Whether an add reaches
\* save_transaction depends on its date and amount alone; from there it
\* fails only as a duplicate or on the table's amount constraint; and the
\* category stored is the trimmed argument, case kept ("Outros" when blank),
\* the payment method the trimmed, lower-cased argument ("pix" when blank).
C9_VocabularyNeverBlocks ==
  \A p \in callers :
    (call[p].op \in AddOps /\ pc[p] = "idle")
      => LET req == call[p].req
             d   == DateOf[req]
             a   == AmountOf[req]
             st  == result[p].status
         IN  /\ st \in {"InvalidDate", "InvalidAmount", "NonPositiveAmount"}
                  <=> (~d.ok \/ ~a.ok)
             /\ (d.ok /\ a.ok)
                  => /\ call[p].tx.category = ExpectedCategory(req.category)
                     /\ call[p].tx.payment_method = ExpectedMethod(req.payment_method)
                     /\ st = "ok" \/ st = "DuplicateTransaction"
                          \/ (st = "StorageError" /\ call[p].tx.amount_cents <= 0)
             /\ st = "ok"
                  => \E i \in 1..Len(store) :
                       /\ store[i].id = result[p].id
                       /\ store[i].category = ExpectedCategory(req.category)
                       /\ store[i].payment_method = ExpectedMethod(req.payment_method)

\* an add was stored although its category is not in the list of its kind
C9_Witness ==
  \E p \in callers :
    /\ call[p].op \in AddOps
    /\ pc[p] = "idle"
    /\ result[p].status = "ok"
    /\ "categoria" \in call[p].avisos
    /\ \E i \in 1..Len(store) :
         /\ store[i].id = result[p].id
         /\ store[i].category \notin
              (IF store[i].type = "income" THEN INCOME_CATEGORIES
               ELSE EXPENSE_CATEGORIES)

\* C10: parsing the display string of c > 0 minor units gives c back.
C10_RoundTrip ==
  (pure.phase = "parsed" /\ pure.cents > 0) => pure.out = Ok(pure.cents)

\* an amount whose display string has two grouping separators came back
C10_Witness ==
  /\ pure.phase = "parsed"
  /\ pure.cents >= 100000000
  /\ Cardinality({i \in 1..Len(pure.text) : pure.text[i] = "."}) = 2
  /\ pure.out = Ok(pure.cents)

====
